---- MODULE Spec2Model ----
(***************************************************************************)
(* A model of innocent_script.py, the per-pixel nested-sampling script of  *)
(* bayesian-ngc1333: argument parsing, prior set-up, the sanity guard, the *)
(* creation of the chains directory, the MultiNest call and the            *)
(* post-processing blocks (evidence aggregation, fit plot, corner plot).   *)
(*                                                                         *)
(* Real numbers are fixed-point integers in units of 1e-4 (25 is 250000).  *)
(***************************************************************************)
EXTENDS Integers, Sequences, FiniteSets, TLC

VARIABLES
    \* --- the prior set-up and the sampler's prior-transform callback
    pk_npeaks,      \* npeaks of the run whose priors are built
    pk_priors,      \* the list `priors` once lines 132-139 have run
    cube,           \* the unit-cube point handed over by the sampler
    params,         \* the rescaled point (prior_uniform's result)
    xoffs,          \* absolute velocities, one per component, block order
    pk_pc,          \* "build" | "draw" | "transform" | "accumulate" | "evaluated"
    \* --- two runs of the script and the output prefix each one computes
    px_argv,        \* run -> <<npeaks, y, x>> (sys.argv[1..3] as integers)
    px_prefix,      \* run -> the outputfiles_basename, <<>> before line 168
    px_pc,          \* run -> "start" | "done"
    \* --- the evidence aggregation of one run (lines 195-201)
    ev_npeaks,      \* npeaks of the aggregating run
    ev_lnZ0,        \* the baseline evidence lnZ0[y, x]
    ev_lnZ,         \* the persisted global evidences of 1..npeaks
    Zs,             \* the list lnZ_xy returns, <<>> before line 195
    ev_logged,      \* the Bayes factors logged: {<<n, m, ln(Zn/Zm)>>}
    ev_pc,          \* "collect" | "report" | "done"
    \* --- one job: NProcs processes running the script on one pixel
    argv,           \* sys.argv[1:], shared by the processes of the job
    mpi,            \* whether mpi4py.MPI is loaded (else AttributeError)
    ydata_finite,   \* the spectrum has a channel with finite flux
    lnL_finite,     \* the trial log-likelihood is finite
    lnZ0_cached,    \* nested-sampling/ngc1333-Zs.fits can be read
    dir_exists,     \* the chains directory of the pixel exists
    results,        \* npeaks -> "absent" | "partial" | "complete" RunResult
    figs,           \* the figures saved: {<<kind, npeaks>>}
    pc,             \* process -> its position in the script
    npeaks,         \* process -> npeaks (line 76)
    plotting,       \* process -> bool(plotting) (lines 87-90)
    plot_fit,       \* process -> plot_fit (lines 92-98)
    plot_corner,    \* process -> plot_corner
    no_valid_chans, \* process -> line 146
    sanity_check,   \* process -> line 147
    errno,          \* process -> errno of the OSError of makedirs, else 0
    bound,          \* process -> the names bound so far among {"a", "Zs"}
    ops,            \* process -> the operations it has performed
    crash           \* process -> where its unhandled exception rose, else ""

pk_vars == <<pk_npeaks, pk_priors, cube, params, xoffs, pk_pc>>
px_vars == <<px_argv, px_prefix, px_pc>>

ev_vars == <<ev_npeaks, ev_lnZ0, ev_lnZ, Zs, ev_logged, ev_pc>>
job_vars == <<argv, mpi, ydata_finite, lnL_finite, lnZ0_cached>>
fs_vars == <<dir_exists, results, figs>>
proc_vars == <<pc, npeaks, plotting, plot_fit, plot_corner, no_valid_chans,
               sanity_check, errno, bound, ops, crash>>
main_vars == <<job_vars, fs_vars, proc_vars>>

vars == <<pk_vars, px_vars, ev_vars, main_vars>>

(***************************************************************************)
(* Bounds of the model.                                                    *)
(***************************************************************************)
MaxPeaks == 2       \* npeaks ranges over 1..MaxPeaks
USteps == 4         \* a unit-cube entry is k/USteps, k in 0..USteps-1
NProcs == 2         \* the processes of the job have ranks 0..NProcs-1

(***************************************************************************)
(* Sequence helpers (Python list semantics).                               *)
(***************************************************************************)
\* lst[::-1]
Reverse(s) == [i \in 1..Len(s) |-> s[Len(s) + 1 - i]]

\* lst * n: n copies of lst, the empty list when n <= 0
RECURSIVE Repeat(_, _)
Repeat(s, n) == IF n <= 0 THEN <<>> ELSE s \o Repeat(s, n - 1)

(***************************************************************************)
(* Lines 33-37, 127-139: module constants and the prior intervals.         *)
(***************************************************************************)
npars == 6
sig2fwhm == 23548                       \* 2*(2*ln 2)**0.5 = 2.3548
min_sigma == (700 * 10000) \div sig2fwhm \* 0.07 / sig2fwhm
dv_min == 2000                          \* 0.2
dv_max == 30000                         \* 3.0
\* a variant whose separations may vanish (C7 must tell it apart)
dxoff_prior_zero == <<0, dv_max>>
\* line 133
dxoff_prior == <<dv_min, dv_max>>

\* the anchored absolute-velocity interval [3, 10]
xoff_prior == <<30000, 100000>>

\* the block of the N-1 further components, as written (before [::-1])
sep_block ==
    << <<27315, 250000>>, <<27315, 250000>>, <<120000, 150000>>,
       <<min_sigma, 10000>>, dxoff_prior, <<500, 20000>> >>

\* the block of the anchor component, as written (before [::-1])
anchor_block ==
    << <<27315, 250000>>, <<27315, 250000>>, <<120000, 150000>>,
       <<min_sigma, 10000>>, xoff_prior, <<500, 10000>> >>

\* a variant repeating the separation block npeaks times (for C6)
priors_xoff_transformed_n(n) ==
    Repeat(Reverse(sep_block), n) \o Reverse(anchor_block)
\* lines 134-137
priors_xoff_transformed(n) ==
    Repeat(Reverse(sep_block), n - 1) \o Reverse(anchor_block)

priors(n) == priors_xoff_transformed(n)

\* positions inside one reversed block: [frac, xoff, sigma, ntot, tex, tkin]
XoffIdx == 2
SigmaIdx == 3

\* the interval of field f of block b (blocks are counted from 1)
BlockField(pr, b, f) == pr[npars * (b - 1) + f]

(***************************************************************************)
(* The callbacks handed to pymultinest.run (lines 141-142, 171-175) live   *)
(* in pyspecnest: the linear rescaling of the unit cube, and the           *)
(* accumulation of the separations onto the anchor velocity.               *)
(***************************************************************************)
\* low + u * (high - low), u = k / USteps
prior_uniform(c, pr) ==
    [i \in 1..Len(pr) |-> pr[i][1] + (c[i] * (pr[i][2] - pr[i][1])) \div USteps]

\* absolute velocity of block b: the anchor is the last block of the list,
\* each other block adds its separation to the block after it
RECURSIVE xoff_abs(_, _, _)
xoff_abs(p, n, b) ==
    IF b = n THEN p[npars * (n - 1) + XoffIdx]
    ELSE xoff_abs(p, n, b + 1) + p[npars * (b - 1) + XoffIdx]

xoff_transform(p, n) == [b \in 1..n |-> xoff_abs(p, n, b)]

\* the unit-cube points drawn: every velocity entry ranges over the whole
\* grid independently; the other five fields take either end of [0,1),
\* chosen per field
OtherFields == (0..(npars - 1)) \ {XoffIdx}

UnitCubes(n) ==
    { [i \in 1..(npars * n) |->
          IF i % npars = XoffIdx THEN v[((i - 1) \div npars) + 1]
          ELSE k[i % npars]] :
      v \in [1..n -> 0..(USteps - 1)],
      k \in [OtherFields -> {0, USteps - 1}] }

\* the variables of the prior set-up while another part is explored
PkIdle ==
    /\ pk_npeaks = 0
    /\ pk_priors = <<>>
    /\ cube = <<>>
    /\ params = <<>>
    /\ xoffs = <<>>
    /\ pk_pc = "idle"

PkInit ==
    /\ pk_npeaks \in 1..MaxPeaks
    /\ pk_priors = <<>>
    /\ cube = <<>>
    /\ params = <<>>
    /\ xoffs = <<>>
    /\ pk_pc = "build"

\* lines 132-139: the prior list is put together
PkBuild ==
    /\ pk_pc = "build"
    /\ pk_priors' = priors(pk_npeaks)
    /\ pk_pc' = "draw"
    /\ UNCHANGED <<pk_npeaks, cube, params, xoffs>>
    /\ UNCHANGED <<px_vars, ev_vars, main_vars>>

\* the sampler draws a point of the unit cube
PkDraw ==
    /\ pk_pc = "draw"
    /\ cube' \in UnitCubes(pk_npeaks)
    /\ pk_pc' = "transform"
    /\ UNCHANGED <<pk_npeaks, pk_priors, params, xoffs>>
    /\ UNCHANGED <<px_vars, ev_vars, main_vars>>

\* the prior transform rescales it into the prior intervals
PkTransform ==
    /\ pk_pc = "transform"
    /\ params' = prior_uniform(cube, pk_priors)
    /\ pk_pc' = "accumulate"
    /\ UNCHANGED <<pk_npeaks, pk_priors, cube, xoffs>>
    /\ UNCHANGED <<px_vars, ev_vars, main_vars>>

\* the symmetric likelihood recovers the absolute velocities
PkAccumulate ==
    /\ pk_pc = "accumulate"
    /\ xoffs' = xoff_transform(params, pk_npeaks)
    /\ pk_pc' = "evaluated"
    /\ UNCHANGED <<pk_npeaks, pk_priors, cube, params>>
    /\ UNCHANGED <<px_vars, ev_vars, main_vars>>

\* the sampler discards the point and asks for the next one
PkNextPoint ==
    /\ pk_pc = "evaluated"
    /\ cube' = <<>>
    /\ params' = <<>>
    /\ xoffs' = <<>>
    /\ pk_pc' = "draw"
    /\ UNCHANGED <<pk_npeaks, pk_priors>>
    /\ UNCHANGED <<px_vars, ev_vars, main_vars>>

PkNext == PkBuild \/ PkDraw \/ PkTransform \/ PkAccumulate \/ PkNextPoint

(***************************************************************************)
(* Lines 156-168: the output prefix handed to the sampler.  Strings are    *)
(* sequences of characters; str.format of an integer is its decimal form.  *)
(***************************************************************************)
DigitChar(d) == <<"0", "1", "2", "3", "4", "5", "6", "7", "8", "9">>[d + 1]

RECURSIVE Digits(_)
Digits(n) ==
    IF n < 10 THEN <<DigitChar(n)>>
    ELSE Digits(n \div 10) \o <<DigitChar(n % 10)>>

\* '{}'.format(n) for an int n
FormatInt(n) == IF n < 0 THEN <<"-">> \o Digits(0 - n) ELSE Digits(n)

name_id == <<"n", "g", "c", "1", "3", "3", "3", "-", "g", "a", "s">>

\* os.path.join(proj_dir, 'nested-sampling/'); proj_dir is one fixed path
output_dir == <<"~/Projects/ngc1333-gas/", "n", "e", "s", "t", "e", "d", "-",
                "s", "a", "m", "p", "l", "i", "n", "g", "/">>

\* a variant without the 'y' literal (for C9)
suffix_nosep(yx) == <<"x">> \o FormatInt(yx[2]) \o FormatInt(yx[1])
\* 'x{1}y{0}'.format(*yx), yx = (y, x)
suffix(yx) == <<"x">> \o FormatInt(yx[2]) \o <<"y">> \o FormatInt(yx[1])

\* '{}chains/{}_{}'.format(output_dir, name_id, suffix)
chains_dir(yx) ==
    output_dir \o <<"c", "h", "a", "i", "n", "s", "/">> \o name_id
        \o <<"_">> \o suffix(yx)

\* '{}/{}-'.format(chains_dir, npeaks)
outputfiles_basename(yx, n) == chains_dir(yx) \o <<"/">> \o FormatInt(n) \o <<"-">>

\* the pixel coordinates and the two runs explored
Coords == {-1, 0, 1, 2, 11, 12, 21, 112, 140}
Runs == {"A", "B"}

PxIdle ==
    /\ px_argv = <<>>
    /\ px_prefix = <<>>
    /\ px_pc = <<>>

PxInit ==
    /\ px_argv \in [Runs -> (1..MaxPeaks) \X Coords \X Coords]
    /\ px_prefix = [r \in Runs |-> <<>>]
    /\ px_pc = [r \in Runs |-> "start"]

\* run r reaches line 168 with its prefix computed
PxFormat(r) ==
    /\ px_pc[r] = "start"
    /\ px_prefix' = [px_prefix EXCEPT ![r] =
           outputfiles_basename(<<px_argv[r][2], px_argv[r][3]>>, px_argv[r][1])]
    /\ px_pc' = [px_pc EXCEPT ![r] = "done"]
    /\ UNCHANGED px_argv
    /\ UNCHANGED <<pk_vars, ev_vars, main_vars>>

PxNext == \E r \in Runs : PxFormat(r)

(***************************************************************************)
(* Lines 195-201: the evidence aggregation.  lnZ_xy returns the list of    *)
(* the log-evidences of 0..npeaks, the baseline first; the script logs     *)
(* the Bayes factors.                                                      *)
(***************************************************************************)
\* the log-evidences a persisted RunResult or the baseline may hold
EvSet == {-100, -85, -80, 0}

\* Python list indexing: a negative index counts from the end
PyIndex(lst, i) == IF i >= 0 THEN lst[i + 1] ELSE lst[Len(lst) + i + 1]

\* lnZ_xy(list(np.arange(npeaks+1)), ..., lnZ0=(lnZ0[y, x], 0))
lnZ_xy(n, z0, z) == <<z0>> \o [k \in 1..n |-> z[k]]

\* a variant with the operands of the differences swapped (for C4)
BayesFactors_swapped(n, Z) ==
    {<<n, n - 1, PyIndex(Z, n - 1) - PyIndex(Z, n)>>}
        \cup (IF n > 1 THEN {<<n, 0, PyIndex(Z, 0) - PyIndex(Z, n)>>} ELSE {})
\* the log.info calls of lines 198-201: <<n, m, value>> is ln(Zn/Zm)
BayesFactors(n, Z) ==
    {<<n, n - 1, PyIndex(Z, n) - PyIndex(Z, n - 1)>>}
        \cup (IF n > 1 THEN {<<n, 0, PyIndex(Z, n) - PyIndex(Z, 0)>>} ELSE {})

EvIdle ==
    /\ ev_npeaks = 0
    /\ ev_lnZ0 = 0
    /\ ev_lnZ = <<>>
    /\ Zs = <<>>
    /\ ev_logged = {}
    /\ ev_pc = "idle"

EvInit ==
    /\ ev_npeaks \in 1..MaxPeaks
    /\ ev_lnZ0 \in EvSet
    /\ ev_lnZ \in [1..ev_npeaks -> EvSet]
    /\ Zs = <<>>
    /\ ev_logged = {}
    /\ ev_pc = "collect"

\* lines 195-196
EvCollect ==
    /\ ev_pc = "collect"
    /\ Zs' = lnZ_xy(ev_npeaks, ev_lnZ0, ev_lnZ)
    /\ ev_pc' = "report"
    /\ UNCHANGED <<ev_npeaks, ev_lnZ0, ev_lnZ, ev_logged>>
    /\ UNCHANGED <<pk_vars, px_vars, main_vars>>

\* lines 198-201
EvReport ==
    /\ ev_pc = "report"
    /\ ev_logged' = BayesFactors(ev_npeaks, Zs)
    /\ ev_pc' = "done"
    /\ UNCHANGED <<ev_npeaks, ev_lnZ0, ev_lnZ, Zs>>
    /\ UNCHANGED <<pk_vars, px_vars, main_vars>>

(***************************************************************************)
(* The script as run by the NProcs processes of one job.                   *)
(***************************************************************************)
Procs == 1..NProcs

\* lines 55-62: comm.Get_rank()
mpi_rank(p) == p - 1

\* a variant that accepts every rank (for C2)
i_am_root_any(p) == IF mpi THEN mpi_rank(p) >= 0 ELSE TRUE
\* lines 65-73: rank 0, or any process when MPI is not running
i_am_root(p) == IF mpi THEN mpi_rank(p) = 0 ELSE TRUE

\* line 36: npeaks when sys.argv[1] is missing
npeaks_default == 2

\* the command lines explored: none, <npeaks y x>, <npeaks y x plotting>
Args ==
    {<<>>} \cup {<<n, 140, 112>> : n \in 1..MaxPeaks}
           \cup {<<n, 140, 112, f>> : n \in 1..MaxPeaks, f \in {0, 1}}

\* lines 75-79
ParseNpeaks(av) == IF Len(av) >= 1 THEN av[1] ELSE npeaks_default

\* lines 87-90: bool(int(sys.argv[4])), 0 when it is missing
ParsePlotting(av) == IF Len(av) >= 4 THEN av[4] # 0 ELSE FALSE

\* a variant that always asks for the corner plot (for C10)
plot_corner_on(pl) == TRUE
\* lines 92-98
plot_fit_flag(pl) == pl
plot_corner_flag(pl) == pl

\* a variant that needs both checks to fail (for C1)
GuardAborts_and(nv, sc) == nv /\ ~sc
\* line 150: the condition under which the script exits
GuardAborts(nv, sc) == nv \/ ~sc

EEXIST == 17
\* variants swallowing every OSError (for C8) and none (for C3)
Swallowed_all(e) == TRUE
Swallowed_none(e) == FALSE
\* lines 163-166: the OSError that is swallowed
Swallowed(e) == e = EEXIST

\* the errno of os.makedirs: 0 is success; EACCES and ENOSPC stand for the
\* errors other than "already exists"
OtherErrnos == {13, 28}
MakedirsErrnos(exists) == IF exists THEN {EEXIST} ELSE {0} \cup OtherErrnos

Status == {"absent", "partial", "complete"}

MainIdle ==
    /\ argv = <<>>
    /\ mpi = FALSE
    /\ ydata_finite = FALSE
    /\ lnL_finite = FALSE
    /\ lnZ0_cached = FALSE
    /\ dir_exists = FALSE
    /\ results = <<>>
    /\ figs = {}
    /\ pc = <<>>
    /\ npeaks = <<>>
    /\ plotting = <<>>
    /\ plot_fit = <<>>
    /\ plot_corner = <<>>
    /\ no_valid_chans = <<>>
    /\ sanity_check = <<>>
    /\ errno = <<>>
    /\ bound = <<>>
    /\ ops = <<>>
    /\ crash = <<>>

MainInit ==
    /\ argv \in Args
    /\ mpi \in BOOLEAN
    /\ ydata_finite \in BOOLEAN
    /\ lnL_finite \in BOOLEAN
    /\ lnZ0_cached \in BOOLEAN
    /\ dir_exists \in BOOLEAN
    /\ results = [k \in 1..MaxPeaks |-> "absent"]
    /\ figs = {}
    /\ pc = [p \in Procs |-> "start"]
    /\ npeaks = [p \in Procs |-> 0]
    /\ plotting = [p \in Procs |-> FALSE]
    /\ plot_fit = [p \in Procs |-> FALSE]
    /\ plot_corner = [p \in Procs |-> FALSE]
    /\ no_valid_chans = [p \in Procs |-> FALSE]
    /\ sanity_check = [p \in Procs |-> FALSE]
    /\ errno = [p \in Procs |-> 0]
    /\ bound = [p \in Procs |-> {}]
    /\ ops = [p \in Procs |-> {}]
    /\ crash = [p \in Procs |-> ""]

\* lines 75-149: the arguments are parsed, the spectrum is loaded, the
\* model is built and the two checks of the guard are evaluated
Start(p) ==
    /\ pc[p] = "start"
    /\ npeaks' = [npeaks EXCEPT ![p] = ParseNpeaks(argv)]
    /\ plotting' = [plotting EXCEPT ![p] = ParsePlotting(argv)]
    /\ plot_fit' = [plot_fit EXCEPT ![p] = plot_fit_flag(ParsePlotting(argv))]
    /\ plot_corner' = [plot_corner EXCEPT ![p] = plot_corner_flag(ParsePlotting(argv))]
    /\ no_valid_chans' = [no_valid_chans EXCEPT ![p] = ~ydata_finite]
    /\ sanity_check' = [sanity_check EXCEPT ![p] = lnL_finite]
    /\ pc' = [pc EXCEPT ![p] = "guard"]
    /\ UNCHANGED <<pk_vars, px_vars, ev_vars, job_vars, fs_vars, errno, bound, ops, crash>>

\* lines 150-153: log.error and sys.exit(), or on to the directory
Guard(p) ==
    /\ pc[p] = "guard"
    /\ pc' = [pc EXCEPT ![p] =
           IF GuardAborts(no_valid_chans[p], sanity_check[p])
           THEN "exited" ELSE "exists"]
    /\ UNCHANGED <<pk_vars, px_vars, ev_vars, job_vars, fs_vars, npeaks, plotting, plot_fit, plot_corner,
                   no_valid_chans, sanity_check, errno, bound, ops, crash>>

\* line 160: os.path.exists(chains_dir)
Exists(p) ==
    /\ pc[p] = "exists"
    /\ pc' = [pc EXCEPT ![p] = IF dir_exists THEN "run" ELSE "makedirs"]
    /\ UNCHANGED <<pk_vars, px_vars, ev_vars, job_vars, fs_vars, npeaks, plotting, plot_fit, plot_corner,
                   no_valid_chans, sanity_check, errno, bound, ops, crash>>

\* lines 161-166: os.makedirs(chains_dir) and the handler of its OSError
Makedirs(p) ==
    /\ pc[p] = "makedirs"
    /\ \E e \in MakedirsErrnos(dir_exists) :
          /\ errno' = [errno EXCEPT ![p] = e]
          /\ dir_exists' = (dir_exists \/ e = 0)
          /\ ops' = [ops EXCEPT ![p] = IF e = 0 THEN @ \cup {"makedirs"} ELSE @]
          /\ pc' = [pc EXCEPT ![p] =
                 IF e = 0 \/ Swallowed(e) THEN "run" ELSE "crashed"]
          /\ crash' = [crash EXCEPT ![p] =
                 IF e = 0 \/ Swallowed(e) THEN @ ELSE "makedirs"]
    /\ UNCHANGED <<pk_vars, px_vars, ev_vars, job_vars, results, figs, npeaks, plotting, plot_fit,
                   plot_corner, no_valid_chans, sanity_check, bound>>

\* lines 168-175: pymultinest.run is entered and starts to write its
\* output under the prefix (it resumes a complete result of the same key)
RunStart(p) ==
    /\ pc[p] = "run"
    /\ ops' = [ops EXCEPT ![p] = @ \cup {"sampler"}]
    /\ results' = [results EXCEPT ![npeaks[p]] =
           IF @ = "complete" THEN "complete" ELSE "partial"]
    /\ pc' = [pc EXCEPT ![p] = "sampling"]
    /\ UNCHANGED <<pk_vars, px_vars, ev_vars, job_vars, dir_exists, figs, npeaks, plotting, plot_fit,
                   plot_corner, no_valid_chans, sanity_check, errno, bound, crash>>

\* pymultinest.run returns: the RunResult is complete
RunFinish(p) ==
    /\ pc[p] = "sampling"
    /\ results' = [results EXCEPT ![npeaks[p]] = "complete"]
    /\ pc' = [pc EXCEPT ![p] = "post1"]
    /\ UNCHANGED <<pk_vars, px_vars, ev_vars, job_vars, dir_exists, figs, npeaks, plotting, plot_fit,
                   plot_corner, no_valid_chans, sanity_check, errno, bound, ops,
                   crash>>

\* the sampler fails or the process is killed: nothing catches it
RunFail(p) ==
    /\ pc[p] = "sampling"
    /\ pc' = [pc EXCEPT ![p] = "crashed"]
    /\ crash' = [crash EXCEPT ![p] = "sampler"]
    /\ UNCHANGED <<pk_vars, px_vars, ev_vars, job_vars, fs_vars, npeaks, plotting, plot_fit, plot_corner,
                   no_valid_chans, sanity_check, errno, bound, ops>>

\* lines 179-201: the analyzer, the baseline evidence, lnZ_xy and the log
\* of the Bayes factors.  Reading a RunResult that is not complete raises
\* in the analyzer, and no handler surrounds the calls.
Evidence(p) ==
    /\ pc[p] = "post1"
    /\ IF i_am_root(p) /\ plot_fit[p]
       THEN LET own == results[npeaks[p]] = "complete"
                all == \A k \in 1..npeaks[p] : results[k] = "complete"
            IN  /\ bound' = [bound EXCEPT ![p] =
                       @ \cup {"a"} \cup (IF all THEN {"Zs"} ELSE {})]
                /\ ops' = [ops EXCEPT ![p] =
                       @ \cup (IF own /\ ~lnZ0_cached THEN {"baseline"} ELSE {})
                         \cup (IF all THEN {"evidence"} ELSE {})]
                /\ pc' = [pc EXCEPT ![p] = IF all THEN "post2" ELSE "crashed"]
                /\ crash' = [crash EXCEPT ![p] =
                       IF all THEN @ ELSE IF own THEN "lnZ_xy" ELSE "get_stats"]
       ELSE /\ pc' = [pc EXCEPT ![p] = "post2"]
            /\ UNCHANGED <<bound, ops, crash>>
    /\ UNCHANGED <<pk_vars, px_vars, ev_vars, job_vars, fs_vars, npeaks, plotting, plot_fit, plot_corner,
                   no_valid_chans, sanity_check, errno>>

\* lines 203-230: the fit plot, annotated with Zs, and its figure
FitPlot(p) ==
    /\ pc[p] = "post2"
    /\ IF plot_fit[p] /\ i_am_root(p)
       THEN LET has == "Zs" \in bound[p]
            IN  /\ ops' = [ops EXCEPT ![p] =
                       @ \cup {"plot_fit"} \cup (IF has THEN {"savefig_fit"} ELSE {})]
                /\ figs' = IF has THEN figs \cup {<<"fit", npeaks[p]>>} ELSE figs
                /\ pc' = [pc EXCEPT ![p] = IF has THEN "post3" ELSE "crashed"]
                /\ crash' = [crash EXCEPT ![p] = IF has THEN @ ELSE "NameError"]
       ELSE /\ pc' = [pc EXCEPT ![p] = "post3"]
            /\ UNCHANGED <<ops, figs, crash>>
    /\ UNCHANGED <<pk_vars, px_vars, ev_vars, job_vars, dir_exists, results, npeaks, plotting, plot_fit,
                   plot_corner, no_valid_chans, sanity_check, errno, bound>>

\* lines 232-248: the corner plot of the chain a.data, and its figure
CornerPlot(p) ==
    /\ pc[p] = "post3"
    /\ IF plot_corner[p] /\ i_am_root(p)
       THEN LET has == "a" \in bound[p]
            IN  /\ ops' = [ops EXCEPT ![p] =
                       @ \cup (IF has THEN {"plot_corner", "savefig_corner"} ELSE {})]
                /\ figs' = IF has THEN figs \cup {<<"corner", npeaks[p]>>} ELSE figs
                /\ pc' = [pc EXCEPT ![p] = IF has THEN "done" ELSE "crashed"]
                /\ crash' = [crash EXCEPT ![p] = IF has THEN @ ELSE "NameError"]
       ELSE /\ pc' = [pc EXCEPT ![p] = "done"]
            /\ UNCHANGED <<ops, figs, crash>>
    /\ UNCHANGED <<pk_vars, px_vars, ev_vars, job_vars, dir_exists, results, npeaks, plotting, plot_fit,
                   plot_corner, no_valid_chans, sanity_check, errno, bound>>

\* another job fits the same pixel with a different npeaks: its RunResult
\* appears in the directory, first partial, then complete
OtherRun(k) ==
    /\ dir_exists
    /\ k # ParseNpeaks(argv)
    /\ results[k] # "complete"
    /\ results' = [results EXCEPT ![k] =
           IF @ = "absent" THEN "partial" ELSE "complete"]
    /\ UNCHANGED <<pk_vars, px_vars, ev_vars, job_vars, dir_exists, figs,
                   proc_vars>>

EvNext == EvCollect \/ EvReport

Next ==
    \/ \E p \in Procs :
          \/ Start(p) \/ Guard(p) \/ Exists(p) \/ Makedirs(p)
          \/ RunStart(p) \/ RunFinish(p) \/ RunFail(p)
          \/ Evidence(p) \/ FitPlot(p) \/ CornerPlot(p)
    \/ \E k \in 1..MaxPeaks : OtherRun(k)

Init == MainInit /\ PkIdle /\ PxIdle /\ EvIdle
InitPriors == PkInit /\ PxIdle /\ EvIdle /\ MainIdle
InitPrefix == PxInit /\ PkIdle /\ EvIdle /\ MainIdle
InitEvidence == EvInit /\ PkIdle /\ PxIdle /\ MainIdle

Spec == Init /\ [][Next]_vars
SpecPriors == InitPriors /\ [][PkNext]_vars
SpecPrefix == InitPrefix /\ [][PxNext]_vars
SpecEvidence == InitEvidence /\ [][EvNext]_vars

(***************************************************************************)
(* C6: for every npeaks >= 1 the prior list has npeaks blocks of 6         *)
(* inclusive intervals; exactly one block carries the anchored velocity    *)
(* interval [3, 10] and each of the other npeaks-1 blocks carries the      *)
(* separation interval [0.2, 3.0], whose lower bound is positive; every    *)
(* block's line-width lower bound is min_sigma; npeaks = 1 has no          *)
(* separation interval.                                                    *)
(***************************************************************************)
C6_PriorBlocks ==
    pk_pc \notin {"idle", "build"} =>
        LET pr == pk_priors
            N == pk_npeaks
            anchored == {b \in 1..N : BlockField(pr, b, XoffIdx) = <<30000, 100000>>}
            separated == {b \in 1..N : BlockField(pr, b, XoffIdx) = <<2000, 30000>>}
        IN  /\ Len(pr) = 6 * N
            /\ \A i \in 1..Len(pr) : Len(pr[i]) = 2 /\ pr[i][1] <= pr[i][2]
            /\ Cardinality(anchored) = 1
            /\ Cardinality(separated) = N - 1
            /\ \A b \in separated : BlockField(pr, b, XoffIdx)[1] > 0
            /\ \A b \in 1..N : BlockField(pr, b, SigmaIdx)[1] = min_sigma
            /\ min_sigma > 0
            /\ (N = 1 => separated = {})

\* a two-component prior list has been built: one separation block
C6_Witness ==
    /\ pk_pc = "draw"
    /\ pk_npeaks = 2
    /\ Len(pk_priors) = 12
    /\ BlockField(pk_priors, 1, XoffIdx) = <<2000, 30000>>
    /\ BlockField(pk_priors, 2, XoffIdx) = <<30000, 100000>>

C9_PrefixInjective ==
    (px_pc # <<>> /\ \A r \in Runs : px_pc[r] = "done") =>
        ((px_argv["A"] = px_argv["B"]) <=> (px_prefix["A"] = px_prefix["B"]))

\* distinct keys whose digits would collide without the separators
C9_Witness ==
    /\ px_pc # <<>>
    /\ \A r \in Runs : px_pc[r] = "done"
    /\ px_argv["A"] = <<1, 12, 1>>
    /\ px_argv["B"] = <<1, 2, 11>>
    /\ px_prefix["A"] # px_prefix["B"]

(***************************************************************************)
(* C1: when the spectrum has no channel with finite flux, or the trial     *)
(* log-likelihood is not finite, no process of the run invokes the sampler *)
(* or writes anything (no directory, no figure): a process that has done   *)
(* either has passed the guard with both checks good.                      *)
(***************************************************************************)
C1_GuardBeforeSampler ==
    /\ (~ydata_finite \/ ~lnL_finite) =>
           /\ figs = {}
           /\ \A p \in Procs :
                 /\ ops[p] = {}
                 /\ errno[p] = 0
                 /\ pc[p] \in {"start", "guard", "exited"}
    /\ \A p \in Procs :
           (ops[p] # {} \/ pc[p] \notin {"start", "guard", "exited"}) =>
               ~no_valid_chans[p] /\ sanity_check[p]

\* an all-NaN spectrum whose trial likelihood is still finite: the process
\* has exited without touching the directory
C1_Witness ==
    \E p \in Procs :
        /\ pc[p] = "exited"
        /\ no_valid_chans[p]
        /\ sanity_check[p]
        /\ ops[p] = {}
        /\ ~dir_exists

(***************************************************************************)
(* C2, as claimed: the creation of the chains directory, the saving of     *)
(* figures, the baseline computation and the plots are performed only by   *)
(* a process for which i_am_root() is true, never by a rank other than 0.  *)
(***************************************************************************)
PostOps == {"baseline", "evidence", "plot_fit", "savefig_fit", "plot_corner",
            "savefig_corner"}

C2_AsClaimed ==
    \A p \in Procs :
        (ops[p] \cap (PostOps \cup {"makedirs"})) # {} =>
            (~mpi \/ mpi_rank(p) = 0)

(***************************************************************************)
(* C2, amended: the baseline computation, the evidence aggregation, the    *)
(* plots and the saving of figures are performed only by rank 0, or by any *)
(* process when MPI is not running; the creation of the directory is left  *)
(* to whichever process finds it missing.                                  *)
(***************************************************************************)
C2_PostProcessingRootOnly ==
    \A p \in Procs :
        (ops[p] \cap PostOps) # {} => (~mpi \/ mpi_rank(p) = 0)

\* under MPI, rank 0 has computed the baseline and saved both figures in a
\* directory that a process of another rank created
C2_Witness ==
    /\ mpi
    /\ \E p, q \in Procs :
          /\ mpi_rank(p) = 0
          /\ {"baseline", "savefig_fit", "savefig_corner"} \subseteq ops[p]
          /\ mpi_rank(q) # 0
          /\ "makedirs" \in ops[q]
          /\ pc[q] = "done"
          /\ ops[q] \cap PostOps = {}

(***************************************************************************)
(* C3: when several processes run the exists-check and then makedirs on    *)
(* the same path, at most one creation succeeds, and exactly one among the *)
(* processes whose makedirs ended in success or "already exists"; no       *)
(* process is terminated by "already exists"; each of them is past the     *)
(* creation, and the sampler is only ever invoked with the directory       *)
(* present.                                                                *)
(***************************************************************************)
Creators == {p \in Procs : "makedirs" \in ops[p]}
Racers == {p \in Procs : "makedirs" \in ops[p] \/ errno[p] = 17}

C3_DirectoryRace ==
    /\ Cardinality(Creators) <= 1
    /\ \A p \in Procs : errno[p] = 17 => crash[p] # "makedirs"
    /\ \A p \in Procs : "sampler" \in ops[p] => dir_exists
    /\ Cardinality(Racers) >= 2 =>
           /\ Cardinality(Creators) = 1
           /\ dir_exists
           /\ \A p \in Racers :
                 pc[p] \notin {"start", "guard", "exists", "makedirs", "exited"}

\* two processes both saw the directory missing: one created it, the other
\* met "already exists", and both have entered the sampler
C3_Witness ==
    \E p, q \in Procs :
        /\ "makedirs" \in ops[p]
        /\ errno[q] = 17
        /\ "sampler" \in ops[p]
        /\ "sampler" \in ops[q]

(***************************************************************************)
(* C4: for every npeaks > 0 and every list of log-evidences of 0..npeaks,  *)
(* the aggregator reports Z[npeaks] - Z[npeaks-1] as the Bayes factor      *)
(* against npeaks-1 and Z[npeaks] - Z[0] as the one against the baseline,  *)
(* plain differences, and nothing else.                                    *)
(***************************************************************************)
C4_BayesFactors ==
    ev_pc = "done" =>
        LET N == ev_npeaks
            Z(k) == IF k = 0 THEN ev_lnZ0 ELSE ev_lnZ[k]
            expected == {<<N, N - 1, Z(N) - Z(N - 1)>>, <<N, 0, Z(N) - Z(0)>>}
        IN  ev_logged = expected

\* Z0 = -100, Z1 = -80, Z2 = -85: -5 for 2 against 1, 15 for 2 against 0
C4_Witness ==
    /\ ev_pc = "done"
    /\ ev_npeaks = 2
    /\ ev_lnZ0 = -100
    /\ ev_lnZ = <<-80, -85>>
    /\ ev_logged = {<<2, 1, -5>>, <<2, 0, 15>>}

(***************************************************************************)
(* C5, as claimed: when the RunResult of some k in 1..npeaks-1 is absent   *)
(* or partial, the aggregator does not crash: no process is terminated by  *)
(* an exception raised in lnZ_xy.                                          *)
(***************************************************************************)
C5_AsClaimed == \A p \in Procs : crash[p] # "lnZ_xy"

(***************************************************************************)
(* C8: a makedirs error other than "already exists" (errno 17) is not      *)
(* swallowed: the process is terminated by it and never invokes the        *)
(* sampler; "already exists" alone is swallowed.                           *)
(***************************************************************************)
C8_ErrorPropagates ==
    \A p \in Procs :
        /\ errno[p] \notin {0, 17} =>
               /\ pc[p] = "crashed"
               /\ crash[p] = "makedirs"
               /\ "sampler" \notin ops[p]
        /\ errno[p] = 17 => crash[p] # "makedirs"

\* one process was terminated by EACCES while another one created the
\* directory and went on to the sampler
C8_Witness ==
    \E p, q \in Procs :
        /\ errno[p] = 13
        /\ pc[p] = "crashed"
        /\ crash[p] = "makedirs"
        /\ "makedirs" \in ops[q]
        /\ "sampler" \in ops[q]

(***************************************************************************)
(* C10: plot_fit and plot_corner are equal; the fit plot only reads Zs,    *)
(* and the corner plot only reads a, after the evidence block has bound    *)
(* them (no NameError); with the plotting flag 0 or omitted no             *)
(* post-processing block runs.                                             *)
(***************************************************************************)
C10_PostProcessingDefined ==
    \A p \in Procs :
        /\ plot_fit[p] = plot_corner[p]
        /\ crash[p] # "NameError"
        /\ "savefig_fit" \in ops[p] => "Zs" \in bound[p]
        /\ "savefig_corner" \in ops[p] => "a" \in bound[p]
        /\ (Len(argv) < 4 \/ argv[4] = 0) =>
               ops[p] \cap PostOps = {} /\ bound[p] = {}

\* a root process with the plotting flag set has run the three blocks
C10_Witness ==
    \E p \in Procs :
        /\ pc[p] = "done"
        /\ Len(argv) = 4
        /\ argv[4] = 1
        /\ bound[p] = {"a", "Zs"}
        /\ {"evidence", "savefig_fit", "savefig_corner"} \subseteq ops[p]

====
